---- MODULE Spec2Model ----
(***************************************************************************)
(* Model of nanobrowser/lib/agent/tools/get_dom_with_content_type.py:      *)
(* the tool get_dom_with_content_type and its text extractor               *)
(* get_filtered_text_content, as a state machine with one action per       *)
(* awaited step of the handler.  The collaborators the tool awaits (the    *)
(* event manager, the browser context, the readiness gate, the             *)
(* accessibility routine, the page's script engine and the file system)    *)
(* answer nondeterministically: every one of them can return or raise.     *)
(***************************************************************************)
EXTENDS Integers, Sequences, FiniteSets, TLC

VARIABLES
    pc,                   \* position of the handler
    calls,                \* number of calls started so far
    content_type,         \* argument of the current call
    activePage,           \* whether the browser context has an active page
    pageResult,           \* what get_current_page answered in this call
    trace,                \* the collaborator calls of the current call, in order
    text_content,         \* local of the text_only branch
    extracted_data,       \* local
    user_success_message, \* local
    outcome,              \* how the current call ended
    page,                 \* the DOM of the browser tab
    originalStyles,       \* the script's array of saved visibility values
    logFile,              \* <logs>/text_only_dom.txt
    history               \* the values the text_only calls returned, oldest first

vars == <<pc, calls, content_type, activePage, pageResult, trace, text_content, extracted_data,
          user_success_message, outcome, page, originalStyles, logFile, history>>

-----------------------------------------------------------------------------
(* Bounds *)

MaxCalls == 2
MaxOverlays == 1
MaxImgs == 2

(* The readiness gate's bound, in milliseconds *)
GateTimeoutMs == 2000

-----------------------------------------------------------------------------
(* Values *)

Null == [kind |-> "null", val |-> ""]
Str(s) == [kind |-> "str", val |-> s]
Obj(o) == [kind |-> "obj", val |-> o]

ValidContentTypes == {"all_fields", "input_fields", "text_only"}
ContentTypes == ValidContentTypes \cup {"html", ""}

AdvisoryMessage ==
    "Could not fetch input fields. Please consider trying with content_type all_fields."

AltLabel == "Other Alt Texts in the page: "

NoActivePage ==
    [type |-> "ValueError", msg |-> "No active page found. OpenURL command opens a new page."]
UnsupportedContentType(ct) ==
    [type |-> "ValueError", msg |-> "Unsupported content_type: " \o ct]
EmitError == [type |-> "Exception", msg |-> "event_manager.emit"]
GateError == [type |-> "Exception", msg |-> "wait_for_non_loading_dom_state"]
AccessibilityError == [type |-> "Exception", msg |-> "do_get_accessibility_info"]
EvaluateError == [type |-> "Exception", msg |-> "page.evaluate"]
WriteError == [type |-> "OSError", msg |-> "text_only_dom.txt"]

NoOutcome == [kind |-> "none"]
Returned(v) == [kind |-> "returned", value |-> v]
Raised(e) == [kind |-> "raised", error |-> e]

Ev(op, arg, ok, ret) == [op |-> op, arg |-> arg, ok |-> ok, ret |-> ret]

-----------------------------------------------------------------------------
(* The page and the script of get_filtered_text_content *)

Visibilities == {"", "visible", "hidden"}
OverlayTexts == {"Agent"}
BodyTexts == {"", "Hello"}
RootTexts == {"", "Doc"}
Alts == {"", "Logo"}

SeqsUpTo(S, n) == UNION {[1..k -> S] : k \in 0..n}

Pages ==
    [hasBody : BOOLEAN, bodyText : BodyTexts, rootText : RootTexts,
     overlays : SeqsUpTo([visibility : Visibilities, text : OverlayTexts], MaxOverlays),
     imgs : SeqsUpTo(Alts, MaxImgs)]

RECURSIVE Join(_, _)
Join(parts, sep) ==
    IF parts = <<>> THEN ""
    ELSE IF Len(parts) = 1 THEN parts[1]
    ELSE parts[1] \o sep \o Join(Tail(parts), sep)

RECURSIVE VisibleText(_)
VisibleText(overlays) ==
    IF overlays = <<>> THEN ""
    ELSE (IF overlays[1].visibility = "hidden" THEN "" ELSE overlays[1].text)
         \o VisibleText(Tail(overlays))

BodyInnerText(p) == p.bodyText \o VisibleText(p.overlays)

RootInnerText(p) ==
    p.rootText \o (IF p.hasBody THEN BodyInnerText(p) ELSE VisibleText(p.overlays))

SaveStyles(p) ==
    [i \in 1..Len(p.overlays) |->
        [element |-> i, originalStyle |-> p.overlays[i].visibility]]

HideElements(p) ==
    [p EXCEPT !.overlays =
        [i \in 1..Len(p.overlays) |-> [p.overlays[i] EXCEPT !.visibility = "hidden"]]]

TextContent(p) ==
    IF p.hasBody /\ BodyInnerText(p) # "" THEN BodyInnerText(p)
    ELSE IF RootInnerText(p) # "" THEN RootInnerText(p)
    ELSE ""

AltTexts(p) == AltLabel \o Join(p.imgs, " ")

RECURSIVE RevertVisibility(_, _)
RevertVisibility(p, styles) ==
    IF styles = <<>> THEN p
    ELSE RevertVisibility(
            [p EXCEPT !.overlays[styles[1].element].visibility = styles[1].originalStyle],
            Tail(styles))

ThrowPoints == {"none", "evaluate", "innerText", "alt"}

EvaluateScript(p, throwAt) ==
    LET styles == SaveStyles(p)
        hidden == HideElements(p)
    IN  CASE throwAt = "evaluate" ->
                [page |-> p, styles |-> <<>>, threw |-> TRUE, ret |-> ""]
          [] throwAt \in {"innerText", "alt"} ->
                [page |-> hidden, styles |-> styles, threw |-> TRUE, ret |-> ""]
          [] OTHER ->
                [page |-> RevertVisibility(hidden, styles), styles |-> styles,
                 threw |-> FALSE, ret |-> TextContent(hidden) \o " " \o AltTexts(hidden)]

-----------------------------------------------------------------------------
(* The log file *)

NoFile == [exists |-> FALSE, content |-> ""]
File(s) == [exists |-> TRUE, content |-> s]

OpenAppendWrite(f, s) == File(f.content \o s)
OpenWrite(f, s) == File(s)

-----------------------------------------------------------------------------
(* The handler *)

Init ==
    /\ pc = "idle"
    /\ calls = 0
    /\ content_type = ""
    /\ activePage = FALSE
    /\ pageResult = "unresolved"
    /\ trace = <<>>
    /\ text_content = ""
    /\ extracted_data = Null
    /\ user_success_message = ""
    /\ outcome = NoOutcome
    /\ page \in Pages
    /\ originalStyles = <<>>
    /\ logFile \in {NoFile, File("stale")}
    /\ history = <<>>

Raise(e) ==
    /\ outcome' = Raised(e)
    /\ pc' = "done"

Call ==
    /\ pc \in {"idle", "done"}
    /\ calls < MaxCalls
    /\ \E ct \in ContentTypes : content_type' = ct
    /\ \E ap \in BOOLEAN : activePage' = ap
    /\ calls' = calls + 1
    /\ pc' = "emit_start"
    /\ pageResult' = "unresolved"
    /\ trace' = <<>>
    /\ text_content' = ""
    /\ extracted_data' = Null
    /\ user_success_message' = ""
    /\ outcome' = NoOutcome
    /\ originalStyles' = <<>>
    /\ UNCHANGED <<page, logFile, history>>

EmitStart_WrongState ==
    /\ pc = "emit_start"
    /\ \E ok \in BOOLEAN :
        /\ trace' = Append(trace, Ev("emit", "ACT_OK", ok, Str("")))
        /\ IF ok THEN pc' = "get_page" /\ UNCHANGED outcome ELSE Raise(EmitError)
    /\ UNCHANGED <<activePage, calls, content_type, pageResult, text_content, extracted_data,
                   user_success_message, page, originalStyles, logFile, history>>

EmitStart ==
    /\ pc = "emit_start"
    /\ \E ok \in BOOLEAN :
        /\ trace' = Append(trace, Ev("emit", "ACT_START", ok,
                       Str("Executing Get DOM Command based on content_type: " \o content_type)))
        /\ IF ok THEN pc' = "get_page" /\ UNCHANGED outcome ELSE Raise(EmitError)
    /\ UNCHANGED <<activePage, calls, content_type, pageResult, text_content, extracted_data,
                   user_success_message, page, originalStyles, logFile, history>>

GetCurrentPage_NoCheck ==
    /\ pc = "get_page"
    /\ pageResult' = (IF activePage THEN "page" ELSE "none")
    /\ pc' = "gate"
    /\ UNCHANGED <<activePage, calls, content_type, trace, text_content, extracted_data,
                   user_success_message, outcome, page, originalStyles, logFile, history>>

GetCurrentPage_SkipGate ==
    /\ pc = "get_page"
    /\ pageResult' = (IF activePage THEN "page" ELSE "none")
    /\ IF ~activePage THEN Raise(NoActivePage) ELSE pc' = "dispatch" /\ UNCHANGED outcome
    /\ UNCHANGED <<activePage, calls, content_type, trace, text_content, extracted_data,
                   user_success_message, page, originalStyles, logFile, history>>

GetCurrentPage ==
    /\ pc = "get_page"
    /\ pageResult' = (IF activePage THEN "page" ELSE "none")
    /\ IF ~activePage THEN Raise(NoActivePage) ELSE pc' = "gate" /\ UNCHANGED outcome
    /\ UNCHANGED <<activePage, calls, content_type, trace, text_content, extracted_data,
                   user_success_message, page, originalStyles, logFile, history>>

WaitGate ==
    /\ pc = "gate"
    /\ \E o \in {"ready", "timeout", "error"} :
        /\ trace' = Append(trace, Ev("gate", GateTimeoutMs, o # "error", Str(o)))
        /\ IF o = "error" THEN Raise(GateError) ELSE pc' = "dispatch" /\ UNCHANGED outcome
    /\ UNCHANGED <<activePage, calls, content_type, pageResult, text_content, extracted_data,
                   user_success_message, page, originalStyles, logFile, history>>

AccessibilityResults == {Null, Obj("{}"), Obj("tree")}

ExtractAllFields_OnlyInputs ==
    /\ pc = "dispatch"
    /\ content_type = "all_fields"
    /\ user_success_message' = "Fetched all the fields in the DOM"
    /\ \/ \E r \in AccessibilityResults :
            /\ trace' = Append(trace, Ev("do_get_accessibility_info", TRUE, TRUE, r))
            /\ extracted_data' = r
            /\ pc' = "emit_ok"
            /\ UNCHANGED outcome
       \/ /\ trace' = Append(trace, Ev("do_get_accessibility_info", TRUE, FALSE, Null))
          /\ Raise(AccessibilityError)
          /\ UNCHANGED extracted_data
    /\ UNCHANGED <<activePage, calls, content_type, pageResult, text_content, page, originalStyles,
                   logFile, history>>

ExtractAllFields ==
    /\ pc = "dispatch"
    /\ content_type = "all_fields"
    /\ user_success_message' = "Fetched all the fields in the DOM"
    /\ \/ \E r \in AccessibilityResults :
            /\ trace' = Append(trace, Ev("do_get_accessibility_info", FALSE, TRUE, r))
            /\ extracted_data' = r
            /\ pc' = "emit_ok"
            /\ UNCHANGED outcome
       \/ /\ trace' = Append(trace, Ev("do_get_accessibility_info", FALSE, FALSE, Null))
          /\ Raise(AccessibilityError)
          /\ UNCHANGED extracted_data
    /\ UNCHANGED <<activePage, calls, content_type, pageResult, text_content, page, originalStyles,
                   logFile, history>>

ExtractInputFields ==
    /\ pc = "dispatch"
    /\ content_type = "input_fields"
    /\ \/ \E r \in AccessibilityResults :
            /\ trace' = Append(trace, Ev("do_get_accessibility_info", TRUE, TRUE, r))
            /\ extracted_data' = r
            /\ IF r = Null
               THEN /\ outcome' = Returned(Str(AdvisoryMessage))
                    /\ pc' = "done"
                    /\ UNCHANGED user_success_message
               ELSE /\ user_success_message' = "Fetched only input fields in the DOM"
                    /\ pc' = "emit_ok"
                    /\ UNCHANGED outcome
       \/ /\ trace' = Append(trace, Ev("do_get_accessibility_info", TRUE, FALSE, Null))
          /\ Raise(AccessibilityError)
          /\ UNCHANGED <<extracted_data, user_success_message>>
    /\ UNCHANGED <<activePage, calls, content_type, pageResult, text_content, page, originalStyles,
                   logFile, history>>

ExtractTextOnly ==
    /\ pc = "dispatch"
    /\ content_type = "text_only"
    /\ \E t \in ThrowPoints :
        LET r == EvaluateScript(page, t) IN
        /\ page' = r.page
        /\ originalStyles' = r.styles
        /\ trace' = Append(trace, Ev("get_filtered_text_content", t, ~r.threw, Str(r.ret)))
        /\ IF r.threw
           THEN Raise(EvaluateError) /\ UNCHANGED text_content
           ELSE text_content' = r.ret /\ pc' = "write_log" /\ UNCHANGED outcome
    /\ UNCHANGED <<activePage, calls, content_type, pageResult, extracted_data, user_success_message,
                   logFile, history>>

WriteLog ==
    /\ pc = "write_log"
    /\ \/ /\ logFile' = OpenWrite(logFile, text_content)
          /\ trace' = Append(trace, Ev("write", "text_only_dom.txt", TRUE, Str(text_content)))
          /\ extracted_data' = Str(text_content)
          /\ user_success_message' = "Fetched the text content of the DOM"
          /\ pc' = "emit_ok"
          /\ UNCHANGED outcome
       \/ \E f \in {logFile, OpenWrite(logFile, "")} :
          /\ logFile' = f
          /\ trace' = Append(trace, Ev("write", "text_only_dom.txt", FALSE, Str("")))
          /\ Raise(WriteError)
          /\ UNCHANGED <<extracted_data, user_success_message>>
    /\ UNCHANGED <<activePage, calls, content_type, pageResult, text_content, page, originalStyles,
                   history>>

RaiseUnsupported_FallThrough ==
    /\ pc = "dispatch"
    /\ content_type \notin ValidContentTypes
    /\ pc' = "emit_ok"
    /\ UNCHANGED <<activePage, calls, content_type, pageResult, trace, text_content, extracted_data,
                   user_success_message, outcome, page, originalStyles, logFile, history>>

RaiseUnsupported ==
    /\ pc = "dispatch"
    /\ content_type \notin ValidContentTypes
    /\ Raise(UnsupportedContentType(content_type))
    /\ UNCHANGED <<activePage, calls, content_type, pageResult, trace, text_content, extracted_data,
                   user_success_message, page, originalStyles, logFile, history>>

EmitOk ==
    /\ pc = "emit_ok"
    /\ \E ok \in BOOLEAN :
        /\ trace' = Append(trace, Ev("emit", "ACT_OK", ok, Str(user_success_message)))
        /\ IF ok THEN pc' = "return" /\ UNCHANGED outcome ELSE Raise(EmitError)
    /\ UNCHANGED <<activePage, calls, content_type, pageResult, text_content, extracted_data,
                   user_success_message, page, originalStyles, logFile, history>>

Return ==
    /\ pc = "return"
    /\ outcome' = Returned(extracted_data)
    /\ history' = (IF content_type = "text_only" THEN Append(history, extracted_data)
                                                   ELSE history)
    /\ pc' = "done"
    /\ UNCHANGED <<activePage, calls, content_type, pageResult, trace, text_content, extracted_data,
                   user_success_message, page, originalStyles, logFile>>

Next ==
    \/ Call
    \/ EmitStart
    \/ GetCurrentPage
    \/ WaitGate
    \/ ExtractAllFields
    \/ ExtractInputFields
    \/ ExtractTextOnly
    \/ WriteLog
    \/ RaiseUnsupported
    \/ EmitOk
    \/ Return

Spec == Init /\ [][Next]_vars

-----------------------------------------------------------------------------
(* Observations on the current call *)

Done == pc = "done"

Indices(op) == {i \in 1..Len(trace) : trace[i].op = op}

EmitAttempts == SelectSeq(trace, LAMBDA e : e.op = "emit")
Emitted == SelectSeq(trace, LAMBDA e : e.op = "emit" /\ e.ok)
EventStates(es) == [i \in 1..Len(es) |-> es[i].arg]
Events == EventStates(Emitted)

IsPrefix(s, t) == Len(s) <= Len(t) /\ \A i \in 1..Len(s) : s[i] = t[i]

EmitFailed(state) == \E i \in Indices("emit") : trace[i].arg = state /\ ~trace[i].ok

GateCalls == Indices("gate")
AccessibilityCalls == Indices("do_get_accessibility_info")
TextCalls == Indices("get_filtered_text_content")
ExtractorCalls == AccessibilityCalls \cup TextCalls
Writes == Indices("write")

OnlyStartEmitted ==
    /\ Len(trace) = 1
    /\ trace[1].op = "emit" /\ trace[1].arg = "ACT_START" /\ trace[1].ok

(* The string a text_only call is to return for page p: the user-visible text  *)
(* (the body's, or the root element's when the body has none), one space, the  *)
(* label, and the alt texts separated by single spaces.                        *)
RECURSIVE SpaceSeparated(_)
SpaceSeparated(alts) ==
    IF Len(alts) = 0 THEN ""
    ELSE IF Len(alts) = 1 THEN alts[1]
    ELSE SpaceSeparated(SubSeq(alts, 1, Len(alts) - 1)) \o " " \o alts[Len(alts)]

ExpectedText(p) ==
    (IF p.hasBody /\ p.bodyText # "" THEN p.bodyText ELSE p.rootText)
    \o " " \o "Other Alt Texts in the page: " \o SpaceSeparated(p.imgs)

-----------------------------------------------------------------------------
C3_AdvisoryWithCompletionEvent ==
    (Done /\ content_type = "input_fields"
          /\ \E i \in AccessibilityCalls : trace[i].ok /\ trace[i].ret = Null)
        => /\ outcome = Returned(Str(AdvisoryMessage))
           /\ \E i \in 1..Len(Events) : Events[i] = "ACT_OK"

(* C4: once a text_only extraction has completed, on any exit path, every      *)
(* element it hid has the visibility it had before the call.                   *)
C4_VisibilityRestored ==
    (TextCalls # {})
        => \A i \in 1..Len(originalStyles) :
              page.overlays[originalStyles[i].element].visibility
                  = originalStyles[i].originalStyle

(* C5: in a text_only call, a failure to write text_only_dom.txt does not      *)
(* abort the call: it still returns the extracted text.                        *)
C5_WriteFailureKeepsResult ==
    (Done /\ content_type = "text_only" /\ \E i \in Writes : ~trace[i].ok)
        => outcome = Returned(Str(text_content))

(* C6: for a valid content type and an active page, a failing emit (of         *)
(* ACT_START or of ACT_OK) leaves the returned extraction result as it is when *)
(* the emit succeeds.                                                          *)
C6_EmitFailureKeepsResult ==
    (Done /\ content_type \in ValidContentTypes /\ activePage
          /\ (EmitFailed("ACT_START") \/ EmitFailed("ACT_OK")))
        => /\ outcome.kind = "returned"
           /\ EmitFailed("ACT_OK") => outcome.value = extracted_data

(* C7: every successful text_only call returns the same string, the body text, *)
(* a space, the label and the alt texts joined by single spaces, and once such *)
(* a call has returned the log file holds exactly that string.                 *)
C7_TextOnlyIdempotent ==
    /\ \A i \in 1..Len(history) : history[i] = Str(ExpectedText(page))
    /\ (Done /\ content_type = "text_only" /\ outcome.kind = "returned")
          => /\ outcome.value = Str(ExpectedText(page))
             /\ logFile = File(ExpectedText(page))

C7_Witness ==
    /\ Done /\ content_type = "text_only" /\ outcome.kind = "returned"
    /\ Len(history) = 2
    /\ history[1] = history[2]
    /\ Len(page.imgs) = 2
    /\ Len(page.overlays) > 0 /\ page.overlays[1].visibility # "hidden"
    /\ logFile = File(outcome.value.val)

(* C8: an all_fields call invokes the accessibility routine only with          *)
(* only_input_fields=False, at most once, and a call that returns returns the  *)
(* value the routine produced, unmodified, the null value included.            *)
C8_AllFieldsDelegates ==
    (content_type = "all_fields")
        => /\ \A i \in AccessibilityCalls : trace[i].arg = FALSE
           /\ Cardinality(AccessibilityCalls) <= 1
           /\ TextCalls = {}
           /\ (pc \in {"emit_ok", "return"}) => Cardinality(AccessibilityCalls) = 1
           /\ (Done /\ outcome.kind = "returned")
                => /\ Cardinality(AccessibilityCalls) = 1
                   /\ \A i \in AccessibilityCalls :
                        trace[i].ok /\ outcome.value = trace[i].ret
           /\ (Done /\ outcome.kind = "raised" /\ pageResult = "page")
                => outcome.error \in {GateError, AccessibilityError, EmitError}

C8_Witness ==
    /\ Done /\ content_type = "all_fields"
    /\ outcome = Returned(Null)
    /\ \E i \in AccessibilityCalls : trace[i].ret = Null /\ trace[i].arg = FALSE

(* C9: the events of a call form a prefix of [ACT_START, ACT_OK]; no ACT_ERROR *)
(* is emitted; a call that ends by raising has emitted no ACT_OK.              *)
C9_EventSequence ==
    /\ IsPrefix(EventStates(EmitAttempts), <<"ACT_START", "ACT_OK">>)
    /\ IsPrefix(Events, <<"ACT_START", "ACT_OK">>)
    /\ \A i \in 1..Len(EmitAttempts) : EmitAttempts[i].arg # "ACT_ERROR"
    /\ (outcome.kind = "raised") => \A i \in 1..Len(Events) : Events[i] # "ACT_OK"

C9_Witness ==
    /\ Done
    /\ outcome \in {Raised(GateError), Raised(AccessibilityError), Raised(EvaluateError)}
    /\ Events = <<"ACT_START">>
    /\ ExtractorCalls # {}

(* C10: for a valid content type and an active page the gate is invoked once,  *)
(* with the 2000 ms bound, and has completed before the extractor starts; at   *)
(* most one extractor is invoked and it is the one content_type selects; the   *)
(* ACT_OK event comes after the extractor has returned, and the result is      *)
(* returned only after the ACT_OK event.                                       *)
SelectedExtractor(e) ==
    CASE content_type = "all_fields" ->
            e.op = "do_get_accessibility_info" /\ e.arg = FALSE
      [] content_type = "input_fields" ->
            e.op = "do_get_accessibility_info" /\ e.arg = TRUE
      [] content_type = "text_only" -> e.op = "get_filtered_text_content"
      [] OTHER -> FALSE

====
